---- MODULE Spec2Model ----
(***************************************************************************)
(* Plain-terminal docker pull progress line (src/main.go, lines 1-321):    *)
(* the pump loop (decode, tracker update, render, finalize), the input     *)
(* watcher goroutine, the close-on-cancel goroutine and the deferred       *)
(* terminal cleanup.                                                       *)
(***************************************************************************)
EXTENDS Integers, Sequences, FiniteSets, TLC

\* ---------------------------------------------------------------- bounds
\* Number of items the source stream delivers in one run.
MaxRecords == 3
\* Longest run of keystroke bytes one Read of the input file returns.
MaxKeys == 2
\* Longest sequence of records fixed in advance.
MaxStream == 4

\* ------------------------------------------------------- program constants
ESC == 27
CtrlC == 3

\* ------------------------------------------------------------ input sets
LayerIds == {"a", "b"}

LayerStatuses ==
    {"", "Downloading", "Download complete", "Pull complete", "Already exists"}

HeaderStatuses ==
    {"", "Pulling from library/node", "Digest: sha256:ab",
     "Status: Downloaded newer image for node:20",
     "Status: Image is up to date for node:20",
     "STATUS: IMAGE IS UP TO DATE FOR node:20"}

\* progressDetail pairs <<current, total>>; <<0, 0>> is a record without one.
Details == {<<0, 0>>, <<40, 100>>, <<0, 200>>, <<199, 200>>, <<250, 200>>}

\* Keystroke bytes the terminal can deliver: Escape, Ctrl-C, 'A'.
Bytes == {ESC, CtrlC, 65}

\* A decoded record: the fields main reads from the map (lines 234-255).
Ev(i, s, c, t, x) == [id |-> i, status |-> s, current |-> c, total |-> t, error |-> x]

LayerEvents ==
    {Ev(i, s, d[1], d[2], "") : i \in LayerIds, s \in LayerStatuses, d \in Details}
        \cup {Ev("a", "Pulling from library/node", 0, 0, "")}

HeaderEvents == {Ev("", s, 0, 0, "") : s \in HeaderStatuses}

ErrorEvents ==
    {Ev("", "", 0, 0, "pull access denied"),
     Ev("a", "Pull complete", 40, 100, "pull access denied")}

\* The records of the pump-only specification.
Records == LayerEvents \cup HeaderEvents \cup ErrorEvents

\* The records of the specification with the watcher interleaved.
CoreRecords ==
    {Ev("a", "Downloading", 40, 100, ""),
     Ev("a", "Download complete", 0, 0, ""),
     Ev("a", "Pull complete", 0, 0, ""),
     Ev("b", "Already exists", 0, 0, ""),
     Ev("b", "Downloading", 199, 200, "")}
        \cup HeaderEvents \cup ErrorEvents

NoEv == Ev("", "", 0, 0, "")

\* A pull of two layers as the daemon reports it: sizes while downloading,
\* no progressDetail on the status-only lines.
StreamRecords ==
    {Ev("a", "Downloading", 50, 100, ""), Ev("b", "Downloading", 0, 200, ""),
     Ev("a", "Pull complete", 0, 0, ""), Ev("b", "Pull complete", 0, 0, ""),
     Ev("a", "Already exists", 0, 0, ""), Ev("b", "Already exists", 0, 0, "")}

Streams == UNION {[1..n -> StreamRecords] : n \in 0..MaxStream}

\* ---------------------------------------------------------------- strings
\* strings.ToLower over the statuses the source can deliver.
ToLower(s) ==
    CASE s = "Downloading" -> "downloading"
      [] s = "Download complete" -> "download complete"
      [] s = "Pull complete" -> "pull complete"
      [] s = "Already exists" -> "already exists"
      [] s = "Pulling from library/node" -> "pulling from library/node"
      [] s = "Digest: sha256:ab" -> "digest: sha256:ab"
      [] s = "Status: Downloaded newer image for node:20"
            -> "status: downloaded newer image for node:20"
      [] s = "Status: Image is up to date for node:20"
            -> "status: image is up to date for node:20"
      [] s = "STATUS: IMAGE IS UP TO DATE FOR node:20"
            -> "status: image is up to date for node:20"
      [] OTHER -> s

\* strings.Contains(lowerStatus, sub) over the lower-cased statuses.
Contains(ls, sub) ==
    CASE sub = "pulling from" -> ls = "pulling from library/node"
      [] sub = "digest:" -> ls = "digest: sha256:ab"
      [] sub = "downloaded newer image"
            -> ls = "status: downloaded newer image for node:20"
      [] sub = "image is up to date"
            -> ls = "status: image is up to date for node:20"
      [] OTHER -> FALSE

\* -------------------------------------------------------------- fractions
\* float64 fractions are kept as reduced pairs <<numerator, denominator>>.
RECURSIVE GCD(_, _)
GCD(a, b) == IF b = 0 THEN a ELSE GCD(b, a % b)

Frac(n, d) == LET g == GCD(n, d) IN <<n \div g, d \div g>>

Less(p, q) == p[1] * q[2] < q[1] * p[2]
Leq(p, q) == p[1] * q[2] <= q[1] * p[2]

Zero == <<0, 1>>
One == <<1, 1>>

\* ---------------------------------------------------------------- tracker
\* The zero value of layerState (lines 18-23), what layers[id] yields for a
\* missing key.
ZeroLayer == [current |-> 0, total |-> 0, status |-> "", done |-> FALSE]

IsTerminalStatus(s) == s \in {"Download complete", "Pull complete", "Already exists"}

\* UpdateLayer with current overwritten by every event (guard of line 285 lost).
UpdateLayerAlwaysCurrent(ls, e) ==
    LET t1 == IF e.total > 0 THEN e.total ELSE ls.total
        c1 == e.current
        s1 == IF e.status # "" THEN e.status ELSE ls.status
        term == IsTerminalStatus(e.status)
        c2 == IF term /\ t1 > 0 /\ c1 < t1 THEN t1 ELSE c1
    IN [current |-> c2, total |-> t1, status |-> s1, done |-> (ls.done \/ term)]

\* UpdateLayer without the snap of lines 294-296.
UpdateLayerNoSnap(ls, e) ==
    LET t1 == IF e.total > 0 THEN e.total ELSE ls.total
        c1 == IF e.current > 0 \/ e.total = 0 THEN e.current ELSE ls.current
        s1 == IF e.status # "" THEN e.status ELSE ls.status
    IN [current |-> c1, total |-> t1, status |-> s1,
        done |-> (ls.done \/ IsTerminalStatus(e.status))]

\* Lines 278-297: the new layerState for an event on layer state ls.
UpdateLayer(ls, e) ==
    LET t1 == IF e.total > 0 THEN e.total ELSE ls.total
        c1 == IF e.current > 0 \/ e.total = 0 THEN e.current ELSE ls.current
        s1 == IF e.status # "" THEN e.status ELSE ls.status
        term == IsTerminalStatus(e.status)
        c2 == IF term /\ t1 > 0 /\ c1 < t1 THEN t1 ELSE c1
    IN [current |-> c2, total |-> t1, status |-> s1, done |-> (ls.done \/ term)]

\* Lines 278-298: layers after the event (a map from the tracked ids).
Observe(L, e) ==
    LET old == IF e.id \in DOMAIN L THEN L[e.id] ELSE ZeroLayer
    IN [i \in DOMAIN L \cup {e.id} |-> IF i = e.id THEN UpdateLayer(old, e) ELSE L[i]]

\* Lines 279-281 with the test left out: the id is appended on every event.
AppendOrderAlways(L, o, e) == Append(o, e.id)

\* Lines 279-281: order after the event.
AppendOrder(L, o, e) == IF e.id \in DOMAIN L THEN o ELSE Append(o, e.id)

SuccessStatus(s) == s = "Pull complete" \/ s = "Already exists"

\* The completion test reading the done flag instead of the status.
LoopAllDoneByFlag(L) == DOMAIN L # {} /\ \A i \in DOMAIN L : L[i].done

\* Lines 301-308: the loop's own completion test.
LoopAllDone(L) == DOMAIN L # {} /\ \A i \in DOMAIN L : SuccessStatus(L[i].status)

\* ----------------------------------------------------------------- render
RECURSIVE SumCurrent(_, _)
SumCurrent(o, L) ==
    IF o = <<>> THEN 0
    ELSE LET ls == L[Head(o)]
         IN (IF Head(o) \in DOMAIN L /\ ls.total > 0 THEN ls.current ELSE 0)
                + SumCurrent(Tail(o), L)

RECURSIVE SumTotal(_, _)
SumTotal(o, L) ==
    IF o = <<>> THEN 0
    ELSE LET ls == L[Head(o)]
         IN (IF Head(o) \in DOMAIN L /\ ls.total > 0 THEN ls.total ELSE 0)
                + SumTotal(Tail(o), L)

\* Lines 70-75: allDone as render computes it (true for an empty order).
RenderAllDone(o, L) ==
    \A k \in 1..Len(o) : o[k] \in DOMAIN L => SuccessStatus(L[o[k]].status)

\* Lines 82-85 with pct starting at 1.0 instead of 0.0.
RawPctOneIfUnknown(o, L) ==
    IF SumTotal(o, L) > 0 THEN Frac(SumCurrent(o, L), SumTotal(o, L)) ELSE One

\* Lines 82-85.
RawPct(o, L) ==
    IF SumTotal(o, L) > 0 THEN Frac(SumCurrent(o, L), SumTotal(o, L)) ELSE Zero

\* The clamp of lines 87-89 left out.
ClampPctNone(pct, allDone) == pct

\* Lines 86-89.
ClampPct(pct, allDone) ==
    IF ~allDone /\ Leq(<<999, 1000>>, pct) THEN <<99, 100>> ELSE pct

\* The clamp of lines 91-97 left out: pct is printed and stored as is.
MonotonicNone(pct, last) == pct

\* Lines 90-97: the fraction printed, given the clamped pct and *lastPct.
Monotonic(pct, last) == IF Less(pct, last) THEN last ELSE pct

\* Lines 67-101: the fraction render prints; *lastPct ends up equal to it
\* (either it was larger and is printed, or it is set to pct).
render(o, L, last) == Monotonic(ClampPct(RawPct(o, L), RenderAllDone(o, L)), last)

\* ---------------------------------------------- widget-based variant
\* Lines 485-507 with the test of line 490 left out: the total is always
\* overwritten.
modelUpdateLayerAlwaysTotal(ls, msg) ==
    LET t1 == msg.total
        c1 == IF msg.current > 0 \/ msg.total = 0 THEN msg.current ELSE ls.current
        s1 == IF msg.status # "" THEN msg.status ELSE ls.status
        term == msg.status \in {"Download complete", "Pull complete", "Already exists"}
        c2 == IF term /\ t1 > 0 /\ c1 < t1 THEN t1 ELSE c1
    IN [current |-> c2, total |-> t1, status |-> s1, done |-> (ls.done \/ term)]

\* Lines 485-507 of model.Update: the layer's state after a progressEvent.
modelUpdateLayer(ls, msg) ==
    LET t1 == IF msg.total > 0 THEN msg.total ELSE ls.total
        c1 == IF msg.current > 0 \/ msg.total = 0 THEN msg.current ELSE ls.current
        s1 == IF msg.status # "" THEN msg.status ELSE ls.status
        term == msg.status \in {"Download complete", "Pull complete", "Already exists"}
        c2 == IF term /\ t1 > 0 /\ c1 < t1 THEN t1 ELSE c1
    IN [current |-> c2, total |-> t1, status |-> s1, done |-> (ls.done \/ term)]

\* Lines 485-507: m.layers after the event (unchanged for an empty id).
modelLayers(L, msg) ==
    IF msg.id = "" THEN L
    ELSE LET old == IF msg.id \in DOMAIN L THEN L[msg.id] ELSE ZeroLayer
         IN [i \in DOMAIN L \cup {msg.id} |->
                IF i = msg.id THEN modelUpdateLayer(old, msg) ELSE L[i]]

\* Lines 485-489: m.order after the event.
modelOrder(L, o, msg) ==
    IF msg.id = "" \/ msg.id \in DOMAIN L THEN o ELSE Append(o, msg.id)

\* Lines 509-520: the sum of one field over the layers of known total.
RECURSIVE modelSum(_, _, _)
modelSum(o, L, fld) ==
    IF o = << >> THEN 0
    ELSE (IF L[Head(o)].total > 0 THEN L[Head(o)][fld] ELSE 0)
            + modelSum(Tail(o), L, fld)

\* Lines 511-516.
modelAllDone(o, L) ==
    \A k \in 1..Len(o) : L[o[k]].status = "Pull complete" \/ L[o[k]].status = "Already exists"

\* Lines 526-537 with the test of line 531 left out: Percent may go down.
modelPercentNotMonotonic(o, L, percent) ==
    IF modelSum(o, L, "total") > 0
      THEN LET p0 == Frac(modelSum(o, L, "current"), modelSum(o, L, "total"))
               p1 == IF ~modelAllDone(o, L) /\ Leq(<<999, 1000>>, p0)
                       THEN <<99, 100>> ELSE p0
           IN IF Less(p1, Zero) THEN Zero ELSE IF Less(One, p1) THEN One ELSE p1
      ELSE percent

\* ui/progressline.go lines 60-68: Percent after SetPercentMsg{Pct: p}.
SetPercent(p) == IF Less(p, Zero) THEN Zero ELSE IF Less(One, p) THEN One ELSE p

\* Lines 526-537: m.pl.Percent after the event, given the Percent before.
modelPercent(o, L, percent) ==
    IF modelSum(o, L, "total") > 0
      THEN LET p0 == Frac(modelSum(o, L, "current"), modelSum(o, L, "total"))
               p1 == IF ~modelAllDone(o, L) /\ Leq(<<999, 1000>>, p0)
                       THEN <<99, 100>> ELSE p0
               p2 == IF Less(p1, percent) THEN percent ELSE p1
           IN SetPercent(p2)
      ELSE percent

\* Line 98: the width of the bar.
Width == 40

\* Lines 39-61: the number of columns of the bar that are not blank.
asciiBar(p, width) ==
    LET p1 == IF Less(p, Zero) THEN Zero ELSE p
        p2 == IF Less(One, p1) THEN One ELSE p1
        filled == (p2[1] * width) \div p2[2]
    IN IF filled > width THEN width ELSE filled

\* Line 98: pct*100 as "%3.0f" prints it, rounded to the nearest integer
\* with halves going to the even one.
PrintedPct(p) ==
    LET q == (p[1] * 100) \div p[2]
        r == (p[1] * 100) % p[2]
    IN IF 2 * r < p[2] THEN q
       ELSE IF 2 * r > p[2] THEN q + 1
       ELSE IF q % 2 = 0 THEN q ELSE q + 1

\* ------------------------------------------------------------------ state
VARIABLES
    pc,         \* main goroutine: where the pump is
    fpath,      \* which branch of the loop called finalize
    wpc,        \* input watcher goroutine (lines 137-154)
    cpc,        \* close-on-cancel goroutine (lines 181-184)
    cancelled,  \* atomic.Bool set by the watcher (line 131)
    ctxDone,    \* ctx cancelled (line 109)
    rcClosed,   \* the pull stream rc has been closed
    avail,      \* the stream holds an item that Decode has not consumed
    nrec,       \* items the source has delivered
    oldState,   \* term.MakeRaw succeeded (oldState != nil)
    raw,        \* the terminal is in raw mode
    ttyFile,    \* "nil", "open" or "closed" (/dev/tty handle)
    cursor,     \* "shown" or "hidden"
    layers,     \* map id -> layerState
    order,      \* ids in first-seen order
    lastPct,    \* last printed fraction
    e,          \* the record of the current loop iteration
    derr,       \* outcome of the last Decode
    shown,      \* fraction printed by the last render
    nrender,    \* number of render calls
    words,      \* state words written by finalize
    errLine,    \* message of the "Error:" line printed, "" if none
    exitCode,   \* -1 while running, else the process exit code
    cleanups,   \* executions of the deferred terminal cleanup
    pct,        \* render's pct before its clamps (lines 82-85)
    key,        \* the byte that made the watcher cancel, 0 if none
    mark,       \* <<records decoded, renders>> when the flag was stored
    mLayers,    \* widget-based variant fed the same records: m.layers
    mOrder,     \*   m.order
    Percent,    \*   m.pl.Percent
    stream      \* records the daemon has still to send, when fixed in advance

vars == <<pc, fpath, wpc, cpc, cancelled, ctxDone, rcClosed, avail, nrec,
          oldState, raw, ttyFile, cursor, layers, order, lastPct, e, derr, shown,
          nrender, words, errLine, exitCode, cleanups, pct, key, mark, mLayers, mOrder, Percent, stream>>

ctlVars == <<wpc, cpc, cancelled, ctxDone, rcClosed>>
termVars == <<oldState, raw, ttyFile, cleanups>>
trackVars == <<layers, order>>
renderVars == <<lastPct, shown, nrender, pct>>
watchVars == <<key, mark>>
tuiVars == <<mLayers, mOrder, Percent>>
outVars == <<words, errLine, exitCode>>

\* Lines 103-196 up to the first call that can fail: context created, terminal
\* set up (raw mode entered or not, /dev/tty opened or not), watcher started.
InitBase ==
    /\ pc = "newclient"
    /\ fpath = "none"
    /\ wpc = "select"
    /\ cpc = "off"
    /\ cancelled = FALSE
    /\ ctxDone = FALSE
    /\ rcClosed = FALSE
    /\ avail = FALSE
    /\ nrec = 0
    /\ oldState \in BOOLEAN
    /\ raw = oldState
    /\ ttyFile \in {"nil", "open"}
    /\ cursor = "shown"
    /\ layers = << >>
    /\ order = << >>
    /\ lastPct = Zero
    /\ e = NoEv
    /\ derr = "none"
    /\ shown = Zero
    /\ nrender = 0
    /\ words = << >>
    /\ errLine = ""
    /\ exitCode = -1
    /\ cleanups = 0
    /\ pct = Zero
    /\ key = 0
    /\ mark = <<0, 0>>
    /\ mLayers = << >>
    /\ mOrder = << >>
    /\ Percent = Zero

\* The records are drawn when Decode returns them.
Init == InitBase /\ stream = << >>

Alive == pc # "exited"

\* fmt.Println("Error:", msg); os.Exit(1) -- deferred functions do not run.
FatalExit(msg) ==
    /\ errLine' = msg
    /\ exitCode' = 1
    /\ pc' = "exited"
    /\ words' = words

\* ---------------------------------------------------------- input watcher
\* Lines 140-143: select on ctx.Done() with a default branch.
WatcherSelect ==
    /\ Alive /\ wpc = "select"
    /\ wpc' = IF ctxDone THEN "returned" ELSE "read"
    /\ UNCHANGED <<pc, fpath, cpc, cancelled, ctxDone, rcClosed, avail, nrec,
                   termVars, cursor, trackVars, renderVars, e, derr, outVars>>
    /\ UNCHANGED <<watchVars, tuiVars, stream>>

\* Line 146 with the test always true: any byte cancels.
IsCancelKeyAny(b) == TRUE

\* Line 146.
IsCancelKey(b) == b = ESC \/ b = CtrlC

HasCancelKey(buf) == \E i \in 1..Len(buf) : IsCancelKey(buf[i])

\* Lines 145-151: the first byte of the buffer that cancels.
FirstCancelKey(buf) ==
    buf[CHOOSE i \in 1..Len(buf) :
            IsCancelKey(buf[i]) /\ \A j \in 1..(i - 1) : ~IsCancelKey(buf[j])]

\* Lines 144-151: a read that returns keystrokes; the first ESC / Ctrl-C
\* stores the flag (line 147), any other byte is dropped.
WatcherRead ==
    /\ Alive /\ wpc = "read"
    /\ \E buf \in UNION {[1..n -> Bytes] : n \in 1..MaxKeys} :
          /\ cancelled' = (cancelled \/ HasCancelKey(buf))
          /\ wpc' = IF HasCancelKey(buf) THEN "cancel" ELSE "select"
          /\ key' = IF HasCancelKey(buf) THEN FirstCancelKey(buf) ELSE key
          /\ mark' = IF HasCancelKey(buf)
                       THEN <<nrec - (IF avail THEN 1 ELSE 0), nrender>>
                       ELSE mark
    /\ UNCHANGED <<pc, fpath, cpc, ctxDone, rcClosed, avail, nrec,
                   termVars, cursor, trackVars, renderVars, e, derr, outVars>>
    /\ UNCHANGED <<tuiVars, stream>>

\* Line 144 with n = 0: the read fails or hits the end of the input file (the
\* error is dropped), and the loop goes round.
WatcherReadNone ==
    /\ Alive /\ wpc = "read"
    /\ wpc' = "select"
    /\ UNCHANGED <<pc, fpath, cpc, cancelled, ctxDone, rcClosed, avail, nrec,
                   termVars, cursor, trackVars, renderVars, e, derr, outVars>>
    /\ UNCHANGED <<watchVars, tuiVars, stream>>

\* Lines 148-149: cancel(); return.
WatcherCancel ==
    /\ Alive /\ wpc = "cancel"
    /\ ctxDone' = TRUE
    /\ wpc' = "returned"
    /\ UNCHANGED <<pc, fpath, cpc, cancelled, rcClosed, avail, nrec,
                   termVars, cursor, trackVars, renderVars, e, derr, outVars>>
    /\ UNCHANGED <<watchVars, tuiVars, stream>>

\* ------------------------------------------------- close-on-cancel goroutine
\* The goroutine waits for ctx.Done() but does not close the stream.
CloseOnCancelNoClose ==
    /\ Alive /\ cpc = "waiting" /\ ctxDone
    /\ cpc' = "done"
    /\ UNCHANGED <<pc, fpath, wpc, cancelled, ctxDone, rcClosed, avail, nrec,
                   termVars, cursor, trackVars, renderVars, e, derr, outVars>>
    /\ UNCHANGED <<watchVars, tuiVars, stream>>

\* Lines 181-184: <-ctx.Done(); rc.Close().
CloseOnCancel ==
    /\ Alive /\ cpc = "waiting" /\ ctxDone
    /\ rcClosed' = TRUE
    /\ cpc' = "done"
    /\ UNCHANGED <<pc, fpath, wpc, cancelled, ctxDone, avail, nrec,
                   termVars, cursor, trackVars, renderVars, e, derr, outVars>>
    /\ UNCHANGED <<watchVars, tuiVars, stream>>

\* ------------------------------------------------------------------ source
\* The daemon writes one more item (a record, the end of the stream, or
\* malformed bytes) to the open stream.
SourceProduce ==
    /\ Alive /\ cpc # "off" /\ ~rcClosed /\ ~avail /\ nrec < MaxRecords
    /\ avail' = TRUE
    /\ nrec' = nrec + 1
    /\ UNCHANGED <<pc, fpath, wpc, cpc, cancelled, ctxDone, rcClosed,
                   termVars, cursor, trackVars, renderVars, e, derr, outVars>>
    /\ UNCHANGED <<watchVars, tuiVars, stream>>

\* -------------------------------------------------------------------- pump
\* Lines 166-170.
NewClientOk ==
    /\ pc = "newclient"
    /\ pc' = "imagepull"
    /\ UNCHANGED <<fpath, ctlVars, avail, nrec, termVars, cursor, trackVars,
                   renderVars, e, derr, outVars>>
    /\ UNCHANGED <<watchVars, tuiVars, stream>>

NewClientFail ==
    /\ pc = "newclient"
    /\ FatalExit("client")
    /\ UNCHANGED <<fpath, ctlVars, avail, nrec, termVars, cursor, trackVars,
                   renderVars, e, derr>>
    /\ UNCHANGED <<watchVars, tuiVars, stream>>

\* Lines 173-196: the pull starts, the close-on-cancel goroutine is started,
\* the cursor is hidden.
ImagePullOk ==
    /\ pc = "imagepull" /\ ~ctxDone
    /\ pc' = "looptop"
    /\ cpc' = "waiting"
    /\ cursor' = "hidden"
    /\ UNCHANGED <<fpath, wpc, cancelled, ctxDone, rcClosed, avail, nrec,
                   termVars, trackVars, renderVars, e, derr, outVars>>
    /\ UNCHANGED <<watchVars, tuiVars, stream>>

\* Lines 175-178: the pull fails (always so with a cancelled ctx).
ImagePullFail ==
    /\ pc = "imagepull"
    /\ FatalExit(IF ctxDone THEN "context canceled" ELSE "pull")
    /\ UNCHANGED <<fpath, ctlVars, avail, nrec, termVars, cursor, trackVars,
                   renderVars, e, derr>>
    /\ UNCHANGED <<watchVars, tuiVars, stream>>

\* Lines 214-222 with the test of line 216 left out: the loop goes to Decode
\* whatever the flag is.
LoopTopNoCheck ==
    /\ pc = "looptop"
    /\ pc' = "decode" /\ fpath' = fpath
    /\ UNCHANGED <<ctlVars, avail, nrec, termVars, cursor, trackVars,
                   renderVars, e, derr, outVars>>
    /\ UNCHANGED <<watchVars, tuiVars, stream>>

\* Lines 214-220: the cancel check at the top of the loop.
LoopTop ==
    /\ pc = "looptop"
    /\ IF cancelled
          THEN pc' = "finalize" /\ fpath' = "cancel"
          ELSE pc' = "decode" /\ fpath' = fpath
    /\ UNCHANGED <<ctlVars, avail, nrec, termVars, cursor, trackVars,
                   renderVars, e, derr, outVars>>
    /\ UNCHANGED <<watchVars, tuiVars, stream>>

\* Lines 222-225: Decode returns io.EOF.
DecodeEOF ==
    /\ pc = "decode" /\ avail
    /\ avail' = FALSE
    /\ derr' = "eof"
    /\ pc' = "return"
    /\ UNCHANGED <<fpath, ctlVars, nrec, termVars, cursor, trackVars,
                   renderVars, e, outVars>>
    /\ UNCHANGED <<watchVars, tuiVars, stream>>

\* Lines 226-229: Decode fails because the stream was closed on cancel.
DecodeCanceled ==
    /\ pc = "decode" /\ rcClosed
    /\ derr' = "canceled"
    /\ pc' = "finalize"
    /\ fpath' = "ctxerr"
    /\ UNCHANGED <<ctlVars, avail, nrec, termVars, cursor, trackVars,
                   renderVars, e, outVars>>
    /\ UNCHANGED <<watchVars, tuiVars, stream>>

\* Lines 230-231: any other Decode error (malformed stream).
DecodeFatal ==
    /\ pc = "decode" /\ avail
    /\ avail' = FALSE
    /\ derr' = "malformed"
    /\ FatalExit("malformed")
    /\ UNCHANGED <<fpath, ctlVars, nrec, termVars, cursor, trackVars,
                   renderVars, e>>
    /\ UNCHANGED <<watchVars, tuiVars, stream>>

\* The error check of line 234 lost: no record is an error record.
IsErrorRecordNever(ev) == FALSE

\* Line 234: errStr, ok := e["error"].(string); ok && errStr != "".
IsErrorRecord(ev) == ev.error # ""

\* The test of line 265 without its "image is up to date" disjunct.
IsFinalHeaderNoUpToDate(ev) ==
    \/ Contains(ToLower(ev.status), "digest:")
    \/ Contains(ToLower(ev.status), "downloaded newer image")

\* Line 265.
IsFinalHeader(ev) ==
    \/ Contains(ToLower(ev.status), "digest:")
    \/ Contains(ToLower(ev.status), "downloaded newer image")
    \/ Contains(ToLower(ev.status), "image is up to date")

\* A render call (lines 67-101) on the tracker state o, L with *lastPct = last.
Render(o, L, last) ==
    /\ shown' = render(o, L, last)
    /\ lastPct' = render(o, L, last)
    /\ nrender' = nrender + 1
    /\ pct' = RawPct(o, L)

\* Lines 221-320: one iteration of the loop on a decoded record.
DecodeOf(R) ==
    /\ pc = "decode" /\ avail
    /\ \E ev \in R :
        /\ e' = ev
        /\ IF IsErrorRecord(ev) \/ Contains(ToLower(ev.status), "pulling from")
             THEN UNCHANGED tuiVars
             ELSE \* the same record as a progressEvent of the other variant
                  /\ mLayers' = modelLayers(mLayers, ev)
                  /\ mOrder' = modelOrder(mLayers, mOrder, ev)
                  /\ Percent' = modelPercent(mOrder', mLayers', Percent)
        /\ avail' = FALSE
        /\ derr' = "ok"
        /\ IF IsErrorRecord(ev)
             THEN \* lines 234-237
                  /\ FatalExit(ev.error)
                  /\ UNCHANGED <<fpath, trackVars, renderVars>>
           ELSE IF Contains(ToLower(ev.status), "pulling from")
             THEN \* lines 258-261
                  /\ pc' = "looptop"
                  /\ UNCHANGED <<fpath, trackVars, renderVars, outVars>>
           ELSE IF ev.id = "" /\ IsFinalHeader(ev)
             THEN \* lines 265-272
                  /\ Render(order, layers, One)
                  /\ pc' = "finalize"
                  /\ fpath' = "header"
                  /\ UNCHANGED <<trackVars, outVars>>
           ELSE IF ev.id = ""
             THEN \* lines 274-275
                  /\ Render(order, layers, lastPct)
                  /\ pc' = "looptop"
                  /\ UNCHANGED <<fpath, trackVars, outVars>>
           ELSE \* lines 278-319
                  /\ layers' = Observe(layers, ev)
                  /\ order' = AppendOrder(layers, order, ev)
                  /\ Render(order', layers', lastPct)
                  /\ IF LoopAllDone(layers')
                       THEN pc' = "finalize" /\ fpath' = "alldone"
                       ELSE pc' = "looptop" /\ fpath' = fpath
                  /\ UNCHANGED outVars
    /\ UNCHANGED <<ctlVars, nrec, termVars, cursor, watchVars>>

\* Lines 198-207: finalize.  After it the loop breaks, through exitNow except
\* on the cancelled-Decode branch (lines 227-228).
Finalize ==
    /\ pc = "finalize"
    /\ words' = Append(words, IF cancelled THEN "CANCELLED" ELSE "DONE")
    /\ cursor' = "shown"
    /\ pc' = IF fpath = "ctxerr" THEN "return" ELSE "exitnow"
    /\ UNCHANGED <<fpath, ctlVars, avail, nrec, termVars, trackVars, renderVars,
                   e, derr, errLine, exitCode>>
    /\ UNCHANGED <<watchVars, tuiVars, stream>>

\* Lines 209-212: exitNow, then break.
ExitNow ==
    /\ pc = "exitnow"
    /\ ctxDone' = TRUE
    /\ rcClosed' = TRUE
    /\ pc' = "return"
    /\ UNCHANGED <<fpath, wpc, cpc, cancelled, avail, nrec, termVars, cursor,
                   trackVars, renderVars, e, derr, outVars>>
    /\ UNCHANGED <<watchVars, tuiVars, stream>>

\* main returns: the deferred calls run in reverse order (rc.Close line 179,
\* cli.Close line 171, terminal cleanup lines 156-164, cancel line 110) and
\* the process exits with code 0.
Return ==
    /\ pc = "return"
    /\ rcClosed' = TRUE
    /\ raw' = IF oldState THEN FALSE ELSE raw
    /\ ttyFile' = IF ttyFile # "nil" THEN "closed" ELSE ttyFile
    /\ cursor' = "shown"
    /\ cleanups' = cleanups + 1
    /\ ctxDone' = TRUE
    /\ exitCode' = 0
    /\ pc' = "exited"
    /\ UNCHANGED <<fpath, wpc, cpc, cancelled, avail, nrec, oldState,
                   trackVars, renderVars, e, derr, words, errLine>>
    /\ UNCHANGED <<watchVars, tuiVars, stream>>

DecodeRecord == DecodeOf(CoreRecords) /\ UNCHANGED stream

DecodeWide == DecodeOf(Records) /\ UNCHANGED stream

Next ==
    \/ WatcherSelect \/ WatcherRead \/ WatcherReadNone \/ WatcherCancel
    \/ CloseOnCancel
    \/ SourceProduce
    \/ NewClientOk \/ NewClientFail
    \/ ImagePullOk \/ ImagePullFail
    \/ LoopTop
    \/ DecodeEOF \/ DecodeCanceled \/ DecodeFatal \/ DecodeRecord
    \/ Finalize \/ ExitNow \/ Return

Spec == Init /\ [][Next]_vars

\* The pump alone: stdin is a terminal in raw mode and no keystroke arrives,
\* so the stream is closed only after the loop and no Decode is cancelled.
InitPump == Init /\ oldState /\ ttyFile = "nil"

NextPump ==
    \/ WatcherSelect
    \/ CloseOnCancel
    \/ SourceProduce
    \/ NewClientOk \/ NewClientFail
    \/ ImagePullOk \/ ImagePullFail
    \/ LoopTop
    \/ DecodeEOF \/ DecodeFatal \/ DecodeWide
    \/ Finalize \/ ExitNow \/ Return

SpecPump == InitPump /\ [][NextPump]_vars

\* The pump reading a sequence of records the daemon has fixed in advance,
\* followed by the end of the stream.
InitStream == InitBase /\ oldState /\ ttyFile = "nil" /\ stream \in Streams

\* The daemon writes the next record of the sequence, or ends the stream.
StreamProduce ==
    /\ Alive /\ cpc # "off" /\ ~rcClosed /\ ~avail /\ derr # "eof"
    /\ avail' = TRUE
    /\ nrec' = nrec + 1
    /\ UNCHANGED <<pc, fpath, wpc, cpc, cancelled, ctxDone, rcClosed,
                   termVars, cursor, trackVars, renderVars, e, derr, outVars>>
    /\ UNCHANGED <<watchVars, tuiVars, stream>>

\* Line 222 on the next record of the sequence.
DecodeStream ==
    /\ stream # << >>
    /\ DecodeOf({Head(stream)})
    /\ stream' = Tail(stream)

\* Lines 222-225 once the sequence is used up.
DecodeStreamEOF == stream = << >> /\ DecodeEOF

NextStream ==
    \/ WatcherSelect
    \/ CloseOnCancel
    \/ StreamProduce
    \/ NewClientOk
    \/ ImagePullOk
    \/ LoopTop
    \/ DecodeStream \/ DecodeStreamEOF
    \/ Finalize \/ ExitNow \/ Return

SpecStream == InitStream /\ [][NextStream]_vars

\* The pump with the scheduler's fairness: every goroutine that can run does
\* run.  Keystrokes and source items are the environment's and may never come.
PumpStep ==
    \/ NewClientOk \/ NewClientFail \/ ImagePullOk \/ ImagePullFail \/ LoopTop
    \/ DecodeEOF \/ DecodeCanceled \/ DecodeFatal \/ DecodeRecord
    \/ Finalize \/ ExitNow \/ Return

SpecFair ==
    /\ Spec
    /\ WF_vars(PumpStep)
    /\ WF_vars(CloseOnCancel)
    /\ WF_vars(WatcherSelect)
    /\ WF_vars(WatcherCancel)

\* =================================================================== claims
\* A step in which Decode returned a record (lines 221-222, err == nil).
RecordStep == pc = "decode" /\ pc' # "decode" /\ derr' = "ok"

\* A record step that reaches the tracker (lines 278-298).
TrackedStep ==
    /\ RecordStep
    /\ e'.error = ""
    /\ e'.id # ""
    /\ e'.status # "Pulling from library/node"

\* allDone as section 4.3 states it.
ClaimAllDone(L) ==
    /\ DOMAIN L # {}
    /\ \A i \in DOMAIN L : L[i].status \in {"Pull complete", "Already exists"}

InLoop == pc \in {"looptop", "decode", "finalize", "exitnow"}

\* ------------------------------------------------------------------- C1
\* C1: lastPct starts at 0 and never decreases, and the fraction each render
\* prints is at least the fraction the render before it printed.
C1_RenderMonotonic ==
    /\ lastPct = Zero
    /\ [][/\ Leq(lastPct, lastPct')
          /\ (nrender' # nrender => Leq(shown, shown'))]_vars

\* A render whose computed fraction was below the one printed before it.
C1_Witness ==
    /\ nrender >= 2
    /\ pc = "looptop"
    /\ Less(ClampPct(RawPct(order, layers), RenderAllDone(order, layers)), shown)

C3_CleanupOnEveryExit ==
    (pc = "exited" /\ oldState)
        => (cleanups = 1 /\ ~raw /\ cursor = "shown" /\ ttyFile # "open")

\* ------------------------------------------------------------------- C4
\* C4: a run in which the watcher read ESC / Ctrl-C and no terminal event
\* (terminal header, allDone) was processed ends with the word CANCELLED, exit
\* code 0, no Error line and raw mode restored.  Runs ended by a failure the
\* cancellation did not cause (client construction, malformed stream, error
\* record) are left aside.
C4_CancelIsClean ==
    (/\ pc = "exited" /\ cancelled
     /\ fpath \notin {"header", "alldone"}
     /\ errLine \in {"", "context canceled"})
        => (words = <<"CANCELLED">> /\ exitCode = 0 /\ errLine = "" /\ ~raw)

\* ------------------------------------------------------------------- C5
\* C5: once the token is signalled while the pump is in its loop, the pump
\* leaves the loop, and it does so through finalize unless the source itself
\* ended the run (end of stream, malformed stream, error record).
C5_CancelLeavesLoop ==
    (ctxDone /\ InLoop)
        ~> (/\ ~InLoop
            /\ (words # << >> \/ derr \in {"eof", "malformed"} \/ errLine # ""))

\* A Decode with nothing to read was ended by the close-on-cancel goroutine.
C5_Witness ==
    /\ derr = "canceled"
    /\ cpc = "done"
    /\ ~avail
    /\ words = <<"CANCELLED">>
    /\ pc = "exited"

\* ------------------------------------------------------------------- C6
\* C6 as stated: a pump that completed through the all-done test wrote the
\* state word DONE.
C6_Original ==
    (fpath = "alldone" /\ pc \in {"exitnow", "return", "exited"})
        => words = <<"DONE">>

\* C6 amended: after a layer event the pump completes (final render, one
\* state word, source closed, no further Decode) iff the tracked set is
\* non-empty and every latest status is "Pull complete" or "Already exists";
\* the word is DONE unless the cancellation flag was set before finalize ran,
\* and then it is CANCELLED.
C6_CompletesIffAllDone ==
    /\ [][TrackedStep =>
            /\ nrender' = nrender + 1
            /\ (pc' = "finalize" /\ fpath' = "alldone") <=> ClaimAllDone(layers')
            /\ ~ClaimAllDone(layers') => pc' = "looptop"]_vars
    /\ [][fpath = "alldone" => (pc' # "decode" /\ nrender' = nrender /\ e' = e)]_vars
    /\ []((fpath = "alldone" /\ pc \in {"exitnow", "return", "exited"})
            => (words = <<"DONE">> \/ (words = <<"CANCELLED">> /\ cancelled)))
    /\ []((fpath = "alldone" /\ pc \in {"return", "exited"}) => rcClosed)

\* A layer marked done by "Download complete" kept the pump running.
C6_Witness ==
    /\ pc = "looptop"
    /\ derr = "ok"
    /\ e.id = "a"
    /\ e.status = "Download complete"
    /\ layers["a"].done
    /\ \A i \in DOMAIN layers : layers[i].done
    /\ nrender >= 1

\* ------------------------------------------------------------------- C7
\* C7: a record with empty id whose status contains (in any case) "digest:",
\* "downloaded newer image" or "image is up to date" makes the final render
\* print exactly 1.0 whatever the layers are, no record is read after it, and
\* the state word is DONE when no cancellation was signalled.
C7_ForcedComplete ==
    /\ [][(/\ RecordStep
           /\ e'.error = ""
           /\ e'.id = ""
           /\ e'.status \in {"Digest: sha256:ab",
                             "Status: Downloaded newer image for node:20",
                             "Status: Image is up to date for node:20",
                             "STATUS: IMAGE IS UP TO DATE FOR node:20"})
            => (/\ pc' = "finalize" /\ fpath' = "header"
                /\ nrender' = nrender + 1
                /\ shown' = One)]_vars
    /\ [][fpath = "header" => (pc' # "decode" /\ nrender' = nrender /\ e' = e)]_vars
    /\ []((fpath = "header" /\ pc \in {"exitnow", "return", "exited"} /\ ~cancelled)
            => words = <<"DONE">>)

\* The header completed a pull whose only layer was still downloading.
C7_Witness ==
    /\ fpath = "header"
    /\ pc = "exited"
    /\ e.status = "STATUS: IMAGE IS UP TO DATE FOR node:20"
    /\ DOMAIN layers = {"a"}
    /\ layers["a"].status = "Downloading"
    /\ shown = One
    /\ words = <<"DONE">>

\* ------------------------------------------------------------------- C8
\* C8: a record with a non-empty error field prints one "Error: <message>"
\* line and exits with code 1 without touching the tracker, rendering or
\* finalizing; exit code 1 comes only with an Error line, and a run that
\* wrote DONE or CANCELLED exits with code 0.
C8_ErrorRecordIsFatal ==
    /\ [][(RecordStep /\ e'.error # "")
            => (/\ errLine' = e'.error /\ errLine = ""
                /\ exitCode' = 1
                /\ pc' = "exited"
                /\ layers' = layers /\ order' = order
                /\ nrender' = nrender /\ lastPct' = lastPct
                /\ words' = words)]_vars
    /\ [](exitCode = 1 <=> errLine # "")
    /\ []((pc = "exited" /\ words # << >>) => exitCode = 0)
    /\ []((pc = "exited" /\ errLine = "") => exitCode = 0)

\* An error record that also carried id, status and progressDetail ended the
\* run with the tracker as it was.
C8_Witness ==
    /\ pc = "exited"
    /\ exitCode = 1
    /\ e = Ev("a", "Pull complete", 40, 100, "pull access denied")
    /\ errLine = "pull access denied"
    /\ "a" \in DOMAIN layers
    /\ layers["a"].status = "Downloading"
    /\ layers["a"].current = 40

\* ------------------------------------------------------------------- C9
\* C9 as stated: once a layer's total is known and the layer is marked done,
\* no later event decreases its current.
C9_Original ==
    [][\A i \in DOMAIN layers :
          (layers[i].total > 0 /\ layers[i].done)
              => layers'[i].current >= layers[i].current]_vars

\* C9 amended: once a layer's total is known and the layer is marked done, its
\* current decreases only under a later event for that id that overwrites it
\* (incoming current > 0, or incoming total = 0) with a smaller value; done
\* stays true and the total stays known.
C9_DecreasesOnlyByOverwrite ==
    [][\A i \in DOMAIN layers :
          (layers[i].total > 0 /\ layers[i].done)
              => /\ layers'[i].done
                 /\ layers'[i].total > 0
                 /\ (layers'[i].current < layers[i].current
                        => /\ TrackedStep
                           /\ e'.id = i
                           /\ (e'.current > 0 \/ e'.total = 0)
                           /\ e'.current < layers[i].current)]_vars

\* Two records were read: the first marked layer a done with total 200 (so
\* current >= 200), the second, without progressDetail, left current at 0.
C9_Witness ==
    /\ nrec = 2
    /\ ~avail
    /\ pc = "looptop"
    /\ e = Ev("a", "Downloading", 0, 0, "")
    /\ DOMAIN layers = {"a"}
    /\ layers["a"] = [current |-> 0, total |-> 200, status |-> "Downloading",
                      done |-> TRUE]

\* ------------------------------------------------------------------ C10
\* C10: right after the tracker processes an event whose status is "Download
\* complete", "Pull complete" or "Already exists", the layer is marked done
\* and, if its total is known, its current is at least its total: it is
\* exactly the total when neither the stored nor the incoming current exceeds it.
C10_TerminalStatusSnaps ==
    [][(/\ TrackedStep
        /\ e'.status \in {"Download complete", "Pull complete", "Already exists"})
          => LET new == layers'[e'.id]
                 stored == IF e'.id \in DOMAIN layers THEN layers[e'.id].current ELSE 0
             IN /\ new.done
                /\ (new.total > 0 => new.current >= new.total)
                /\ (new.total > 0 /\ stored <= new.total /\ e'.current <= new.total)
                      => new.current = new.total]_vars

\* "Pull complete" without progressDetail snapped current to the total 100
\* learned from an earlier event.
C10_Witness ==
    /\ derr = "ok"
    /\ e = Ev("a", "Pull complete", 0, 0, "")
    /\ "a" \in DOMAIN layers
    /\ layers["a"] = [current |-> 100, total |-> 100, status |-> "Pull complete",
                      done |-> TRUE]

\* ---------------------------------------------------------------- C11
\* The sum of one field over the layers of S, in no particular order.
RECURSIVE ClaimSum(_, _, _)
ClaimSum(L, S, fld) ==
    IF S = {} THEN 0
    ELSE LET i == CHOOSE j \in S : TRUE
         IN L[i][fld] + ClaimSum(L, S \ {i}, fld)

ClaimKnown(L) == {i \in DOMAIN L : L[i].total > 0}

ClaimFraction(L) ==
    IF ClaimKnown(L) = {} THEN Zero
    ELSE Frac(ClaimSum(L, ClaimKnown(L), "current"),
              ClaimSum(L, ClaimKnown(L), "total"))

\* The tracker after a(Downloading,50/100), b(Downloading,0/200).
C11_Halfway ==
    /\ DOMAIN layers = {"a", "b"}
    /\ layers["a"].status = "Downloading" /\ layers["b"].status = "Downloading"
    /\ layers["a"].current = 50 /\ layers["a"].total = 100
    /\ layers["b"].current = 0 /\ layers["b"].total = 200

\* The tracker after both of them reported "Pull complete".
C11_BothComplete ==
    /\ DOMAIN layers = {"a", "b"}
    /\ layers["a"].status = "Pull complete" /\ layers["b"].status = "Pull complete"
    /\ layers["a"].total = 100 /\ layers["b"].total = 200

\* C11: the fraction a render computes is the sum of current over the sum of
\* total, both over the tracked layers whose total is known, and 0 when no
\* layer has a known total; a layer of unknown size adds to neither sum but
\* is counted by allDone.  After a(Downloading,50/100), b(Downloading,0/200)
\* the fraction is 50/300; after both reported "Pull complete" it is 1, the
\* loop took the allDone path and the state word is DONE.
C11_AggregateFraction ==
    /\ nrender > 0 => pct = ClaimFraction(layers)
    /\ fpath = "alldone" => ClaimAllDone(layers)
    /\ C11_Halfway => pct = <<1, 6>>
    /\ C11_BothComplete =>
          /\ pct = One /\ shown = One /\ fpath = "alldone"
          /\ pc = "exited" => words = <<"DONE">>

\* The example run: the pull has ended with DONE after the four records, one
\* render each.
C11_Witness ==
    /\ pc = "exited" /\ C11_BothComplete /\ nrender = 4 /\ words = <<"DONE">>
    /\ order = <<"a", "b">>

\* ---------------------------------------------------------------- C12
\* C12: for every sequence of records, also when a reported current exceeds
\* the total, the fraction every render uses is within [0,1]: the bar has at
\* most Width columns filled and the percentage printed is within 0..100.
C12_FractionWithinUnit ==
    nrender > 0 =>
        /\ Leq(Zero, shown) /\ Leq(shown, One)
        /\ asciiBar(shown, Width) \in 0..Width
        /\ PrintedPct(shown) \in 0..100

\* ---------------------------------------------------------------- C13
\* C13: when the token is triggered by another path than the watcher itself
\* (completion, end of the stream, the deferred cancel), the watcher's loop
\* ends without a further keystroke, whether it reads stdin or /dev/tty: a
\* run that ends with code 0 and no cancel key does not leave the watcher
\* blocked in its read.
C13_WatcherStops ==
    (pc = "exited" /\ exitCode = 0 /\ ~cancelled /\ ctxDone) => wpc # "read"

\* ---------------------------------------------------------------- C14
\* C14: the flag is true only after the watcher read a byte 27 or 3, no other
\* byte sets it; the watcher stores the flag and triggers the token at most
\* once and reads nothing afterwards, the flag is never reset, and CANCELLED
\* is written only if the watcher saw byte 27 or 3.
C14_FlagOnlyFromCancelKey ==
    [][ /\ cancelled' => key' \in {27, 3}
        /\ (~cancelled /\ cancelled') => (wpc = "read" /\ wpc' = "cancel")
        /\ cancelled => (cancelled' /\ key' = key)
        /\ cancelled => wpc' \in {"cancel", "returned"}
        /\ wpc = "returned" => (wpc' = "returned" /\ cancelled' = cancelled)
        /\ (wpc = "cancel" /\ wpc' # wpc) => (wpc' = "returned" /\ ctxDone')
        /\ (\E k \in 1..Len(words') : words'[k] = "CANCELLED") => key' \in {27, 3}
      ]_vars

\* Ctrl-C was read, the watcher returned and the run ended with CANCELLED.
C14_Witness ==
    pc = "exited" /\ words = <<"CANCELLED">> /\ key = CtrlC /\ wpc = "returned"

\* ---------------------------------------------------------------- C15
\* The layer's stored state before an event (the zero value if untracked).
ClaimStored(L, i) == IF i \in DOMAIN L THEN L[i] ELSE ZeroLayer

\* The reference rule of the claim, field by field.
ClaimRuleTotal(old, ev) == IF ev.total > 0 THEN ev.total ELSE old.total
ClaimRuleCurrent(old, ev) ==
    IF ev.current > 0 \/ ev.total = 0 THEN ev.current ELSE old.current
ClaimRuleStatus(old, ev) == IF ev.status # "" THEN ev.status ELSE old.status

ClaimFollowsRule(old, ev, new) ==
    /\ new.total = ClaimRuleTotal(old, ev)
    /\ new.current = ClaimRuleCurrent(old, ev)
    /\ new.status = ClaimRuleStatus(old, ev)

\* The rule, with current then raised to the total on a terminal status.
ClaimFollowsRuleThenSnap(old, ev, new) ==
    /\ new.total = ClaimRuleTotal(old, ev)
    /\ new.status = ClaimRuleStatus(old, ev)
    /\ new.current =
          IF /\ ev.status \in {"Download complete", "Pull complete", "Already exists"}
             /\ new.total > 0
             /\ ClaimRuleCurrent(old, ev) < new.total
            THEN new.total
            ELSE ClaimRuleCurrent(old, ev)
    /\ old.total > 0 => new.total > 0

\* C15 as stated: for an event with a non-empty id, the update of the tracker
\* (in both variants) equals the reference rule: total replaced iff the
\* incoming total > 0, current replaced iff the incoming current > 0 or the
\* incoming total = 0 and otherwise unchanged, status replaced iff non-empty.
C15_Original ==
    [][TrackedStep =>
          /\ ClaimFollowsRule(ClaimStored(layers, e'.id), e', layers'[e'.id])
          /\ ClaimFollowsRule(ClaimStored(mLayers, e'.id), e', mLayers'[e'.id])]_vars

\* C15 amended: for an event with a non-empty id, total and status follow the
\* reference rule in both variants (so a known total stays known), and
\* current is the rule's value unless the incoming status is "Download
\* complete", "Pull complete" or "Already exists", the total is known and the
\* rule's value is below it: then current is the total.
C15_UpdateFollowsRuleThenSnap ==
    [][TrackedStep =>
          /\ ClaimFollowsRuleThenSnap(ClaimStored(layers, e'.id), e', layers'[e'.id])
          /\ ClaimFollowsRuleThenSnap(ClaimStored(mLayers, e'.id), e', mLayers'[e'.id])]_vars

\* After a(40/100), a record with current 0 and total 200 replaced the total
\* and left the current, in both variants.
C15_Witness ==
    /\ pc = "looptop" /\ nrec = 2 /\ ~avail
    /\ e = Ev("a", "Downloading", 0, 200, "")
    /\ DOMAIN layers = {"a"}
    /\ layers["a"] = [current |-> 40, total |-> 200, status |-> "Downloading",
                      done |-> FALSE]
    /\ mLayers = layers

\* ---------------------------------------------------------------- C16
\* o is a prefix of p.
ClaimPrefix(o, p) == Len(o) <= Len(p) /\ \A k \in 1..Len(o) : p[k] = o[k]

\* C16: after any sequence of records the order has no duplicates and never
\* the empty id, and its elements are exactly the ids of the table, in the
\* order in which they were first seen; a record only appends to it; a record
\* with an empty id or a "pulling from" status changes neither the table nor
\* the order.
C16_OrderIsFirstSeen ==
    [][ /\ \A j, k \in 1..Len(order') : order'[j] = order'[k] => j = k
        /\ \A k \in 1..Len(order') : order'[k] # ""
        /\ {order'[k] : k \in 1..Len(order')} = DOMAIN layers'
        /\ ClaimPrefix(order, order')
        /\ order' # order => /\ RecordStep
                             /\ e'.id \notin DOMAIN layers
                             /\ order' = Append(order, e'.id)
        /\ (RecordStep /\ e'.id # "" /\ e'.error = ""
               /\ ~Contains(ToLower(e'.status), "pulling from"))
              => e'.id \in DOMAIN layers'
        /\ (RecordStep /\ (e'.id = "" \/ Contains(ToLower(e'.status), "pulling from")))
              => (layers' = layers /\ order' = order)
      ]_vars

\* Layer b was seen first and a second; a later record for b and a header
\* left the order as it was.
C16_Witness ==
    /\ order = <<"b", "a">>
    /\ nrec = 3 /\ ~avail /\ pc = "looptop"
    /\ e.id \in {"", "b"}

\* ---------------------------------------------------------------- C17
\* A record that the widget-based variant receives as a progressEvent.
ClaimEventStep == RecordStep /\ e'.error = ""

\* C17 as stated: after every event, up to and including the one on which
\* the plain variant finalizes, ProgressLine.Percent of the widget-based
\* variant equals the fraction the plain variant's render shows.  Renders of
\* a fraction above 1 are left aside here: they are the subject of C12.
C17_Original ==
    [][(ClaimEventStep /\ Leq(shown', One)) => Percent' = shown']_vars

\* C17 amended: after every event on which the plain variant does not
\* finalize, Percent equals the fraction render shows, and the two variants
\* hold the same table and order; on the event that finalizes through the
\* allDone path Percent is the shown fraction cut at 1, and on a global
\* terminal header, where render is forced to 1, Percent is the fraction
\* shown before it.
C17_SameFractionUntilFinalize ==
    [][ClaimEventStep =>
          /\ mLayers' = layers' /\ mOrder' = order'
          /\ pc' = "looptop" => Percent' = shown'
          /\ (pc' = "finalize" /\ fpath' = "alldone") =>
                Percent' = (IF Less(One, shown') THEN One ELSE shown')
          /\ (pc' = "finalize" /\ fpath' = "header") =>
                (shown' = One /\ Percent' = shown /\ Percent' = Percent)]_vars

\* Both variants show 40/100 after two events, the second of which brought
\* a smaller fraction that the monotonic clamp of each kept out.
C17_Witness ==
    /\ pc = "looptop" /\ nrec = 2 /\ ~avail
    /\ shown = <<2, 5>> /\ Percent = <<2, 5>>
    /\ pct = <<1, 5>>

\* ---------------------------------------------------------------- C18
\* C18: every run of the pump that ends with exit code 0 (end of the stream,
\* completion or cancellation) has executed finalize exactly once: exactly
\* one state line, DONE or CANCELLED, was written before the exit.
C18_FinalizeExactlyOnce ==
    (pc = "exited" /\ exitCode = 0) =>
        (Len(words) = 1 /\ words[1] \in {"DONE", "CANCELLED"})

\* ---------------------------------------------------------------- C19
\* C19: the pump takes the allDone path (DONE, source closed and cancelled)
\* only when the whole operation is complete: no record that the source has
\* still to send carries a layer id not yet tracked or a non-terminal status.
C19_DoneOnlyWhenComplete ==
    (fpath = "alldone" /\ pc \in {"finalize", "exitnow", "return", "exited"}) =>
        \A k \in 1..Len(stream) :
            /\ stream[k].id \in DOMAIN layers
            /\ stream[k].status \in {"Download complete", "Pull complete", "Already exists"}

\* ---------------------------------------------------------------- C20
\* Records that Decode has returned so far.
ClaimDecoded == nrec - (IF avail THEN 1 ELSE 0)

\* C20: under every interleaving of the watcher and the pump, once the flag
\* is set the pump applies at most one further record and performs at most
\* one further render before it stops reading and finalizes: from the top of
\* the loop it goes to finalize, never to another Decode, and it does not
\* come back to the loop.
C20_AtMostOneMoreRecord ==
    [][ /\ cancelled' => /\ ClaimDecoded' - mark'[1] <= 1
                         /\ nrender' - mark'[2] <= 1
        /\ (cancelled /\ pc = "looptop" /\ pc' # pc) => pc' = "finalize"
        /\ (cancelled /\ pc \in {"finalize", "exitnow", "return", "exited"})
              => pc' \in {"finalize", "exitnow", "return", "exited"}
      ]_vars

\* The key was read while the pump was in Decode; one more record was applied
\* and rendered, then the run ended with CANCELLED.
C20_Witness ==
    /\ pc = "exited" /\ words = <<"CANCELLED">> /\ fpath = "cancel"
    /\ ClaimDecoded - mark[1] = 1
    /\ nrender - mark[2] = 1
====
